---- MODULE Spec2Model ----
(***************************************************************************)
(* Model of populate_db2.py: the one-shot loader that parses a             *)
(* tab-separated sales file into six tables (region, country,              *)
(* productcategory, product, customer, orderdetail).                       *)
(*                                                                         *)
(* Representation of the source file.  `file` is the sequence of data      *)
(* lines after the header line.  A line is the tuple `parts` produced by   *)
(* line.rstrip("\n").split("\t"); Python's parts[k] is parts[k+1] here.    *)
(* Plain text fields are strings without surrounding white space, the      *)
(* name field is the list of its white-space separated words, and a        *)
(* semicolon-packed field is the sequence of its items, the empty          *)
(* sequence standing for the empty string.  Items that the code parses     *)
(* character by character (prices, quantities, dates) are sequences of     *)
(* one-character strings.                                                  *)
(***************************************************************************)
EXTENDS Integers, Sequences, FiniteSets, TLC

\* ---------------------------------------------------------------- bounds
MaxLines == 2
MaxBatch == 2
MaxFails == 2
MaxRuns == 2
\* page_size of execute_values, scaled down so that a buffer spans pages
PageSize == 1

\* ------------------------------------------------------- character level
Digits == {"0", "1", "2", "3", "4", "5", "6", "7", "8", "9"}

DigitVal(c) ==
    CASE c = "0" -> 0 [] c = "1" -> 1 [] c = "2" -> 2 [] c = "3" -> 3
      [] c = "4" -> 4 [] c = "5" -> 5 [] c = "6" -> 6 [] c = "7" -> 7
      [] c = "8" -> 8 [] c = "9" -> 9

RECURSIVE NatOf(_)
NatOf(s) ==
    IF s = <<>> THEN 0
    ELSE NatOf(SubSeq(s, 1, Len(s) - 1)) * 10 + DigitVal(s[Len(s)])

\* str.isdigit(): non-empty and only digits
isdigit(s) == s # <<>> /\ \A k \in DOMAIN s : s[k] \in Digits

\* str.split(sep) on a character sequence
RECURSIVE SplitOn(_, _)
SplitOn(s, sep) ==
    IF \A k \in DOMAIN s : s[k] # sep THEN << s >>
    ELSE LET k == CHOOSE j \in DOMAIN s :
                      s[j] = sep /\ \A h \in 1..(j - 1) : s[h] # sep
         IN  << SubSeq(s, 1, k - 1) >> \o SplitOn(SubSeq(s, k + 1, Len(s)), sep)

\* str.replace(c, "")
replace(s, c) == SelectSeq(s, LAMBDA x : x # c)

\* the value None, for dates (a date is <<year, month, day>>)
NoDate == <<>>
\* the value None, for surrogate ids (ids start at 1)
NoId == 0

IsLeap(y) == (y % 4 = 0 /\ y % 100 # 0) \/ y % 400 = 0

DaysIn(y, m) ==
    IF m = 2 THEN (IF IsLeap(y) THEN 29 ELSE 28)
    ELSE IF m \in {4, 6, 9, 11} THEN 30 ELSE 31

\* datetime.date(y, m, d) raises ValueError unless this holds
ValidDate(y, m, d) == y >= 1 /\ m \in 1..12 /\ d \in 1..DaysIn(y, m)

MkDate(y, m, d) == IF ValidDate(y, m, d) THEN << y, m, d >> ELSE NoDate

\* datetime.strptime(s, "%Y%m%d").date() on an 8-digit string
strptime_Ymd(s) ==
    MkDate(NatOf(SubSeq(s, 1, 4)), NatOf(SubSeq(s, 5, 6)), NatOf(SubSeq(s, 7, 8)))

\* datetime.strptime(s, "%Y-%m-%d").date(): a 4-digit year, 1 or 2 digit
\* month and day
strptime_Y_m_d(s) ==
    LET g == SplitOn(s, "-")
    IN  IF /\ Len(g) = 3
           /\ \A k \in 1..3 : isdigit(g[k])
           /\ Len(g[1]) = 4 /\ Len(g[2]) \in 1..2 /\ Len(g[3]) \in 1..2
        THEN MkDate(NatOf(g[1]), NatOf(g[2]), NatOf(g[3]))
        ELSE NoDate

\* HH:MM or HH:MM:SS
IsoTime(t) ==
    LET g == SplitOn(t, ":")
    IN  /\ Len(g) \in 2..3
        /\ \A k \in DOMAIN g : Len(g[k]) = 2 /\ isdigit(g[k])
        /\ NatOf(g[1]) < 24
        /\ \A k \in 2..Len(g) : NatOf(g[k]) < 60

\* datetime.fromisoformat(s).date() for strings that are not 8 digits:
\* YYYY-MM-DD, optionally followed by one separator and a time
fromisoformat(s) ==
    IF /\ Len(s) >= 10
       /\ s[5] = "-" /\ s[8] = "-"
       /\ isdigit(SubSeq(s, 1, 4)) /\ isdigit(SubSeq(s, 6, 7))
       /\ isdigit(SubSeq(s, 9, 10))
       /\ (Len(s) = 10 \/ (Len(s) >= 12 /\ IsoTime(SubSeq(s, 12, Len(s)))))
    THEN MkDate(NatOf(SubSeq(s, 1, 4)), NatOf(SubSeq(s, 6, 7)),
                NatOf(SubSeq(s, 9, 10)))
    ELSE NoDate

\* the date normalisation of the order-line loop
ParseDate(dates, i) ==
    IF i > Len(dates) THEN NoDate
    ELSE LET d_raw == dates[i]
         IN  IF Len(d_raw) = 8 /\ isdigit(d_raw) THEN strptime_Ymd(d_raw)
             ELSE IF fromisoformat(d_raw) # NoDate THEN fromisoformat(d_raw)
             ELSE strptime_Y_m_d(d_raw)

\* float(s): digits with at most one ".", at least one digit.  The value is
\* <<integer part, fraction digits without trailing zeros>>; <<>> stands for
\* the ValueError.
RECURSIVE StripZeros(_)
StripZeros(s) ==
    IF s # <<>> /\ s[Len(s)] = "0" THEN StripZeros(SubSeq(s, 1, Len(s) - 1))
    ELSE s

FloatErr == <<>>

float(s) ==
    LET g == SplitOn(s, ".")
    IN  IF /\ Len(g) \in 1..2
           /\ \A k \in DOMAIN g : g[k] = <<>> \/ isdigit(g[k])
           /\ \E k \in DOMAIN g : g[k] # <<>>
        THEN << NatOf(g[1]), IF Len(g) = 2 THEN StripZeros(g[2]) ELSE <<>> >>
        ELSE FloatErr

Zero == << 0, <<>> >>

\* the price conversion of parse_products
ParsePrice(price_raw) ==
    IF price_raw = <<>> THEN Zero
    ELSE IF float(price_raw) # FloatErr THEN float(price_raw)
    ELSE IF float(replace(price_raw, ",")) # FloatErr
         THEN float(replace(price_raw, ","))
    ELSE Zero

\* the quantity conversion of the order-line loop: int(float(.))
ParseQty(qtys, i) ==
    IF i > Len(qtys) THEN 0
    ELSE IF float(qtys[i]) # FloatErr THEN float(qtys[i])[1]
    ELSE IF float(replace(qtys[i], ",")) # FloatErr
         THEN float(replace(qtys[i], ","))[1]
    ELSE 0

\* raw.split(";") of a packed field
Split(raw) == IF raw = <<>> THEN << "" >> ELSE raw

\* [x.strip() for x in raw.split(";")] if raw else []
SplitOrEmpty(raw) == IF raw = <<>> THEN <<>> ELSE Split(raw)

\* [x.strip() for x in raw.split(";") if x.strip()]
SplitNonEmpty(raw) == SelectSeq(Split(raw), LAMBDA x : x # "")

\* ----------------------------------------------------------- source files
c_10   == << "1", "0" >>
c_10_0 == << "1", "0", ".", "0" >>
c_20_0 == << "2", "0", ".", "0" >>
c_1k   == << "1", ",", "0", "0", "0" >>
c_3    == << "3" >>
c_5    == << "5" >>
c_abc  == << "a", "b", "c" >>
c_20230101 == << "2", "0", "2", "3", "0", "1", "0", "1" >>
c_20230230 == << "2", "0", "2", "3", "0", "2", "3", "0" >>
c_bad_date == << "b", "a", "d", "-", "d", "a", "t", "e" >>
c_2023_1_5 == << "2", "0", "2", "3", "-", "1", "-", "5" >>
c_iso_time == << "2", "0", "2", "3", "-", "0", "1", "-", "0", "2", "T",
                 "1", "0", ":", "0", "0" >>

\* the example line of the specification
LineJane ==
    << << "Jane", "Doe" >>, "Elm", "Springfield", "USA", "NA",
       << "Widget", "Gadget" >>, << "Toys", "Tools" >>, << "Fun", "Fix" >>,
       << c_10_0, c_20_0 >>, << c_3, c_5 >>, << c_20230101, c_bad_date >> >>

\* a country without region; the customer has the name of LineJane's
LineNoRegion ==
    << << "Jane", "Doe" >>, "Oak", "NA", "Atlantis", "",
       << "Widget" >>, << "Toys" >>, << "Fun" >>,
       << c_10 >>, << c_1k >>, << c_2023_1_5 >> >>

\* an empty first product name, two order lines
LineJohn ==
    << << "John", "Roe" >>, "Elm", "Paris", "USA", "NA",
       << "", "Gadget", "Widget" >>, << "Tools", "Toys" >>, << "Fix", "Fun" >>,
       << c_20_0, c_10_0 >>, << c_3, c_abc >>,
       << c_20230101, c_iso_time, c_2023_1_5 >> >>

\* a short line: five fields only
LineShort == << << "Ann" >>, "Pine", "Rome", "Italy", "EU" >>

\* no descriptions, prices or quantities; a product without category
LineAnn ==
    << << "Ann" >>, "Pine", "Rome", "Italy", "EU",
       << "Gizmo", "Widget" >>, << "Toys" >>, <<>>,
       <<>>, <<>>, << c_20230101, c_2023_1_5 >> >>

\* the customer name of LineJane at another address, the country under
\* another region; one category under two descriptions; an impossible
\* calendar date
LineJane2 ==
    << << "Jane", "Doe" >>, "Oak", "Boston", "USA", "EU",
       << "Widget", "Widget" >>, << "Toys", "Toys" >>, << "Fun", "Joy" >>,
       << c_10_0, c_1k >>, << c_5 >>, << c_20230230, c_20230101 >> >>

\* no customer name
LineNoName ==
    << <<>>, "Elm", "Paris", "USA", "NA",
       << "Widget" >>, << "Toys" >>, << "Fun" >>,
       << c_10_0 >>, << c_3 >>, << c_20230101 >> >>

Lines == { LineJane, LineNoRegion, LineJohn, LineShort, LineAnn, LineJane2,
           LineNoName }

Files == UNION { [1..n -> Lines] : n \in 0..MaxLines }

\* ------------------------------------------------------ string comparison
\* the strings of the files in Python's (code point) order
StrOrder ==
    << "", "Ann", "Atlantis", "Boston", "Doe", "EU", "Elm", "Fix", "Fun",
       "Gadget", "Gizmo", "Italy", "Jane", "John", "Joy", "NA", "Oak",
       "Paris", "Pine", "Roe", "Rome", "Springfield", "Tools", "Toys",
       "USA", "Widget" >>

Rank(s) == CHOOSE k \in DOMAIN StrOrder : StrOrder[k] = s

\* the results sorted(S, key=...) can return: Python's sort is stable, so
\* elements of equal key keep the order in which the set yields them, and
\* that order is arbitrary (string hashes are salted per process)
RECURSIVE sorted(_, _)
sorted(S, key) ==
    IF S = {} THEN { <<>> }
    ELSE LET firsts == { x \in S : \A y \in S : key[x] <= key[y] }
         IN  UNION { { << x >> \o t : t \in sorted(S \ { x }, key) } :
                     x \in firsts }

\* ---------------------------------------------------------------- parsers
\* name.split(): first word, and the other words joined (names of the
\* files have at most two words)
FirstOf(name) == name[1]
LastOf(name) == IF Len(name) > 1 THEN name[2] ELSE ""

parse_regions(path) ==
    LET regions == { path[k][5] :
                       k \in { j \in DOMAIN path :
                                 Len(path[j]) > 4 /\ path[j][5] # "" } }
    IN  sorted(regions, [r \in regions |-> Rank(r)])

\* as countries_set, the region read from the city column
countries_set_city(path) ==
    { << path[k][4], path[k][3] >> :
        k \in { j \in DOMAIN path :
                  /\ Len(path[j]) > 4
                  /\ path[j][4] # "" /\ path[j][3] # "" } }

countries_set(path) ==
    { << path[k][4], path[k][5] >> :
        k \in { j \in DOMAIN path :
                  /\ Len(path[j]) > 4
                  /\ path[j][4] # "" /\ path[j][5] # "" } }

parse_countries(path) ==
    LET pairs == countries_set(path)
    IN  sorted(pairs, [x \in pairs |-> Rank(x[1])])

\* the (cat, desc) tuples of one line
LineCategories(parts) ==
    IF Len(parts) > 7
    THEN LET cat_list == SplitNonEmpty(parts[7])
             desc_list == SplitOrEmpty(parts[8])
         IN  { << cat_list[i],
                  IF i <= Len(desc_list) THEN desc_list[i] ELSE "" >> :
                 i \in DOMAIN cat_list }
    ELSE {}

categories_set(path) == UNION { LineCategories(path[k]) : k \in DOMAIN path }

parse_productcategories(path) ==
    LET cats == categories_set(path)
    IN  sorted(cats, [x \in cats |-> Rank(x[1])])

\* the (name, cat, price) tuples of one line
LineProducts(parts) ==
    IF Len(parts) > 8
    THEN LET names == SplitNonEmpty(parts[6])
             cats == SplitOrEmpty(parts[7])
             prices == SplitOrEmpty(parts[9])
             cat(i) == IF i <= Len(cats) THEN cats[i] ELSE ""
             price_raw(i) == IF i <= Len(prices) THEN prices[i] ELSE <<>>
         IN  { << names[i], cat(i), ParsePrice(price_raw(i)) >> :
                 i \in { j \in DOMAIN names : cat(j) # "" } }
    ELSE {}

products_set(path) == UNION { LineProducts(path[k]) : k \in DOMAIN path }

parse_products(path) ==
    LET prods == products_set(path)
    IN  sorted(prods, [x \in prods |-> Rank(x[1])])

\* the customer tuple of one line, if it yields one
LineCustomers(parts, valid_countries) ==
    IF /\ Len(parts) > 4
       /\ parts[4] # "" /\ parts[4] \in valid_countries
       /\ parts[1] # <<>>
    THEN { << FirstOf(parts[1]), LastOf(parts[1]), parts[2], parts[3],
              parts[4] >> }
    ELSE {}

customers_set(path, valid_countries) ==
    UNION { LineCustomers(path[k], valid_countries) : k \in DOMAIN path }

\* the sort key first + " " + last: no first name of the files is a prefix
\* of another, so the order is that of the pair (first, last)
NameKey(first, last) == Rank(first) * (Len(StrOrder) + 1) + Rank(last)

\* as parse_customers, the tuples collected in a list instead of a set
parse_customers_list(path, valid_countries) ==
    LET custs == customers_set(path, valid_countries)
        twice == [x \in custs \X { 1, 2 } |-> NameKey(x[1][1], x[1][2])]
    IN  { [k \in DOMAIN t |-> t[k][1]] : t \in sorted(custs \X { 1, 2 }, twice) }

parse_customers(path, valid_countries) ==
    LET custs == customers_set(path, valid_countries)
    IN  sorted(custs, [x \in custs |-> NameKey(x[1], x[2])])

\* ------------------------------------------------------------------ state
VARIABLES
    file,               \* the data lines of DATA_FILE
    batch_size_orders,  \* the parameter of main
    run,                \* number of the current run of main
    pc,                 \* position of main
    db,                 \* the committed rows of the six tables
    txn,                \* rows inserted by the open transaction: <<table, row>>
    serial,             \* last value of each table's SERIAL sequence
    parsed,             \* the parser results main has assigned
    maps,               \* the natural-key -> id mappings main has assigned
    lineno,             \* lines parse_orders_stream has read
    processed_lines,
    customer_id,
    i,                  \* sub-record position of the current line
    insert_rows,
    total_inserted,
    r,                  \* position of the row-by-row fallback
    fails,              \* insert failures of this run
    flush,              \* history of the last flush attempt
    first               \* history: the outcome of the first run, of the
                        \* first application of the parsers

vars == << file, batch_size_orders, run, pc, db, txn, serial, parsed, maps,
           lineno, processed_lines, customer_id, i, insert_rows,
           total_inserted, r, fails, flush, first >>

input == << file, batch_size_orders >>
orderloop == << lineno, processed_lines, customer_id, i, insert_rows,
                total_inserted, r, flush >>

Tables == { "region", "country", "productcategory", "product", "customer",
            "orderdetail" }

\* DDL_SQL: every table dropped and created again, every sequence with it
DDL_SQL == [t \in Tables |-> <<>>]

NoFlush == [kind |-> "none", rows |-> <<>>, base |-> 0, outcomes |-> <<>>]

\* the number of rows of each table of a store
Counts(store) == [t \in Tables |-> Len(store[t])]

NoFirst == [pc |-> "none", counts |-> Counts(DDL_SQL), parsed |-> <<>>]

\* ---------------------------------------------------------------- the store
\* the rows a transaction holds for a table
Pending(tx, t) ==
    LET own == SelectSeq(tx, LAMBDA e : e[1] = t)
    IN  [k \in DOMAIN own |-> own[k][2]]

\* SELECT ... FROM t on the loader's connection: committed and own rows
Select(t) == db[t] \o Pending(txn, t)

\* conn.commit() of the transaction tx
Committed(tx) == [t \in Tables |-> db[t] \o Pending(tx, t)]

\* INSERT of rows into t: each row gets the next value of the sequence
Inserted(t, rows) ==
    txn \o [k \in DOMAIN rows |-> << t, << serial[t] + k >> \o rows[k] >>]

\* the natural key the read-back of a table selects: its name column, for
\* customer the pair <<firstname, lastname>>, which models the string
\* f"{f} {l}".strip()
KeyOf(t, row) == IF t = "customer" THEN << row[2], row[3] >> ELSE row[2]

\* {key: id for key, id in rows}: the last row of a key wins
DictOf(t, rows) ==
    [key \in { KeyOf(t, rows[k]) : k \in DOMAIN rows } |->
        LET last == CHOOSE k \in DOMAIN rows :
                        /\ KeyOf(t, rows[k]) = key
                        /\ \A j \in DOMAIN rows :
                              KeyOf(t, rows[j]) = key => j <= k
        IN  rows[last][1]]

\* ------------------------------------------------------------------- main
Init ==
    /\ file \in Files
    /\ batch_size_orders \in 1..MaxBatch
    /\ run = 1
    /\ pc = "ddl"
    /\ db = DDL_SQL
    /\ txn = <<>>
    /\ serial = [t \in Tables |-> 0]
    /\ parsed = <<>>
    /\ maps = <<>>
    /\ lineno = 0
    /\ processed_lines = 0
    /\ customer_id = NoId
    /\ i = 0
    /\ insert_rows = <<>>
    /\ total_inserted = 0
    /\ r = 0
    /\ fails = 0
    /\ flush = NoFlush
    /\ first = NoFirst

\* as AfterInsert, without the commit
AfterInsertNoCommit(stage) == stage \o "_map"

\* the order of the stages of main
AfterInsert(stage) == stage \o "_commit"
AfterCommit(stage) == stage \o "_map"
AfterMap(stage) ==
    CASE stage = "region" -> "country"
      [] stage = "country" -> "productcategory"
      [] stage = "productcategory" -> "product"
      [] stage = "product" -> "customer"
      [] stage = "customer" -> "orders"

\* as CreateTables, the tables created only if they do not exist
CreateTablesKeep ==
    /\ pc = "ddl"
    /\ txn' = <<>>
    /\ pc' = "region"
    /\ UNCHANGED << input, run, db, serial, parsed, maps, orderloop, fails,
                    first >>

\* cur.execute(DDL_SQL); conn.commit()
CreateTables ==
    /\ pc = "ddl"
    /\ db' = DDL_SQL
    /\ serial' = [t \in Tables |-> 0]
    /\ txn' = <<>>
    /\ pc' = "region"
    /\ UNCHANGED << input, run, parsed, maps, orderloop, fails, first >>

\* `if rows: execute_batch(cur, INSERT INTO stage ..., rows)`: the rows enter
\* the open transaction
ExecuteBatch(stage, rows) ==
    IF rows = <<>>
    THEN /\ pc' = AfterCommit(stage)
         /\ UNCHANGED << txn, serial >>
    ELSE /\ txn' = Inserted(stage, rows)
         /\ serial' = [serial EXCEPT ![stage] = @ + Len(rows)]
         /\ pc' = AfterInsert(stage)

StaticStages == { "region", "country", "productcategory", "product",
                  "customer" }

\* execute_batch or the commit after it raises: nothing catches the
\* exception, main ends, and the closed connection loses its transaction
StaticRaises ==
    /\ pc \in { AfterInsert(stage) : stage \in StaticStages }
    /\ txn' = <<>>
    /\ pc' = "crashed"
    /\ UNCHANGED << input, run, db, serial, parsed, maps, orderloop, fails,
                    first >>

\* conn.commit() of a static stage
Commit(stage) ==
    /\ pc = AfterInsert(stage)
    /\ db' = Committed(txn)
    /\ txn' = <<>>
    /\ pc' = AfterCommit(stage)
    /\ UNCHANGED << input, run, serial, parsed, maps, orderloop, fails, first >>

CommitStage == \E stage \in StaticStages : Commit(stage)

\* cur.execute("SELECT key, id FROM stage"); stage_map = {...}
ReadBack(stage, name) ==
    /\ pc = AfterCommit(stage)
    /\ maps' = [n \in DOMAIN maps \cup { name } |->
                  IF n = name THEN DictOf(stage, Select(stage)) ELSE maps[n]]
    /\ pc' = AfterMap(stage)
    /\ UNCHANGED << input, run, db, txn, serial, parsed, orderloop, fails,
                    first >>

Assign(name, value) ==
    parsed' = [n \in DOMAIN parsed \cup { name } |->
                 IF n = name THEN value ELSE parsed[n]]

\* ---------- REGION ----------
InsertRegions ==
    /\ pc = "region"
    /\ \E regions \in parse_regions(file) :
          /\ Assign("regions", regions)
          /\ ExecuteBatch("region", [k \in DOMAIN regions |-> << regions[k] >>])
    /\ UNCHANGED << input, run, db, maps, orderloop, fails, first >>

MapRegions == ReadBack("region", "region_map")

\* ---------- COUNTRY ----------
\* as country_rows, with the position of the region instead of its regionid
country_rows_index(country_pairs, region_map) ==
    LET kept == SelectSeq(country_pairs, LAMBDA x : x[2] \in DOMAIN region_map)
    IN  [k \in DOMAIN kept |-> << kept[k][1], region_map[kept[k][2]] - 1 >>]

country_rows(country_pairs, region_map) ==
    LET kept == SelectSeq(country_pairs, LAMBDA x : x[2] \in DOMAIN region_map)
    IN  [k \in DOMAIN kept |-> << kept[k][1], region_map[kept[k][2]] >>]

InsertCountries ==
    /\ pc = "country"
    /\ \E country_pairs \in parse_countries(file) :
          /\ Assign("country_pairs", country_pairs)
          /\ ExecuteBatch("country",
                          country_rows(country_pairs, maps["region_map"]))
    /\ UNCHANGED << input, run, db, maps, orderloop, fails, first >>

MapCountries == ReadBack("country", "country_map")

\* ---------- PRODUCT CATEGORY ----------
InsertCategories ==
    /\ pc = "productcategory"
    /\ \E categories \in parse_productcategories(file) :
          /\ Assign("categories", categories)
          /\ ExecuteBatch("productcategory", categories)
    /\ UNCHANGED << input, run, db, maps, orderloop, fails, first >>

MapCategories == ReadBack("productcategory", "cat_map")

\* ---------- PRODUCT ----------
product_rows(products_raw, cat_map) ==
    LET kept == SelectSeq(products_raw, LAMBDA x : x[2] \in DOMAIN cat_map)
    IN  [k \in DOMAIN kept |-> << kept[k][1], kept[k][3], cat_map[kept[k][2]] >>]

InsertProducts ==
    /\ pc = "product"
    /\ \E products_raw \in parse_products(file) :
          /\ Assign("products_raw", products_raw)
          /\ ExecuteBatch("product",
                          product_rows(products_raw, maps["cat_map"]))
    /\ UNCHANGED << input, run, db, maps, orderloop, fails, first >>

MapProducts == ReadBack("product", "product_map")

\* ---------- CUSTOMER ----------
customer_rows(customers_raw, country_map) ==
    [k \in DOMAIN customers_raw |->
        << customers_raw[k][1], customers_raw[k][2], customers_raw[k][3],
           customers_raw[k][4], country_map[customers_raw[k][5]] >>]

InsertCustomers ==
    /\ pc = "customer"
    /\ \E customers_raw \in
            parse_customers(file, DOMAIN maps["country_map"]) :
          /\ Assign("customers_raw", customers_raw)
          /\ ExecuteBatch("customer",
                          customer_rows(customers_raw, maps["country_map"]))
    /\ UNCHANGED << input, run, db, maps, orderloop, fails, first >>

MapCustomers == ReadBack("customer", "cust_map")

\* ---------- ORDERDETAIL (stream + batch insert) ----------
\* a field of the tuple parse_orders_stream yields: "" when the line is short
Field(parts, k) == IF Len(parts) >= k THEN parts[k] ELSE <<>>

max(S) == CHOOSE x \in S : \A y \in S : y <= x

\* max(len(pnames), len(qtys), len(dates), len(prices), len(pcats))
max_len(parts) ==
    max({ Len(SplitOrEmpty(Field(parts, k))) : k \in { 6, 7, 9, 10, 11 } })

\* the customer ids main can resolve a line to: cust_map by "first last",
\* else the row the fallback SELECT ... LIMIT 1 returns; {} when it skips
ResolveCustomer(parts, cust_map, country_map, customer) ==
    LET first_ == FirstOf(parts[1])
        last_ == LastOf(parts[1])
        key == << first_, last_ >>
        country == parts[4]
    IN  IF key \in DOMAIN cust_map THEN { cust_map[key] }
        ELSE IF country # "" /\ country \in DOMAIN country_map
        THEN { customer[k][1] :
                 k \in { j \in DOMAIN customer :
                           /\ customer[j][2] = first_
                           /\ customer[j][3] = last_
                           /\ customer[j][6] = country_map[country] } }
        ELSE {}

\* as OrderLine, a quantity of 0 skipping the position
OrderLineSkipZero(parts, pos, cid, product_map) ==
    LET pnames == SplitOrEmpty(Field(parts, 6))
        qtys == SplitOrEmpty(Field(parts, 10))
        dates == SplitOrEmpty(Field(parts, 11))
        pname == IF pos <= Len(pnames) THEN pnames[pos] ELSE ""
        qty == ParseQty(qtys, pos)
        date_str == ParseDate(dates, pos)
    IN  IF pname = "" THEN <<>>
        ELSE IF qty = 0 THEN <<>>
        ELSE IF date_str = NoDate THEN <<>>
        ELSE IF pname \notin DOMAIN product_map THEN <<>>
        ELSE << << cid, product_map[pname], date_str, qty >> >>

\* the rows position i of a line appends to insert_rows: none or one
OrderLine(parts, pos, cid, product_map) ==
    LET pnames == SplitOrEmpty(Field(parts, 6))
        qtys == SplitOrEmpty(Field(parts, 10))
        dates == SplitOrEmpty(Field(parts, 11))
        pname == IF pos <= Len(pnames) THEN pnames[pos] ELSE ""
        qty == ParseQty(qtys, pos)
        date_str == ParseDate(dates, pos)
    IN  IF pname = "" THEN <<>>
        ELSE IF date_str = NoDate THEN <<>>
        ELSE IF pname \notin DOMAIN product_map THEN <<>>
        ELSE << << cid, product_map[pname], date_str, qty >> >>

\* where the loops continue after position pos - 1 of the current line
Resume(parts, pos) == IF pos > max_len(parts) THEN "orders" ELSE "sub"

\* one line of parse_orders_stream and the head of the loop body
NextLine ==
    /\ pc = "orders"
    /\ lineno < Len(file)
    /\ lineno' = lineno + 1
    /\ LET parts == file[lineno + 1]
       IN  IF Len(parts) < 6
           THEN UNCHANGED << processed_lines, customer_id, i, pc >>
           ELSE /\ processed_lines' = processed_lines + 1
                /\ IF parts[1] = <<>>
                   THEN UNCHANGED << customer_id, i, pc >>
                   ELSE LET ids == ResolveCustomer(parts, maps["cust_map"],
                                       maps["country_map"], Select("customer"))
                        IN  IF ids = {}
                            THEN /\ customer_id' = NoId
                                 /\ UNCHANGED << i, pc >>
                            ELSE /\ customer_id' \in ids
                                 /\ i' = 1
                                 /\ pc' = Resume(parts, 1)
    /\ UNCHANGED << input, run, db, txn, serial, parsed, maps, insert_rows,
                    total_inserted, r, fails, flush, first >>

\* as SubRecord, the batch flushed when it holds more than batch_size_orders
SubRecordLate ==
    /\ pc = "sub"
    /\ LET parts == file[lineno]
           rows == OrderLine(parts, i, customer_id, maps["product_map"])
       IN  /\ insert_rows' = insert_rows \o rows
           /\ i' = i + 1
           /\ pc' = IF rows # <<>> /\ Len(insert_rows') > batch_size_orders
                    THEN "flush"
                    ELSE Resume(parts, i + 1)
    /\ UNCHANGED << input, run, db, txn, serial, parsed, maps, lineno,
                    processed_lines, customer_id, total_inserted, r, fails,
                    flush, first >>

\* one position of the inner loop, up to the test of the batch size
SubRecord ==
    /\ pc = "sub"
    /\ LET parts == file[lineno]
           rows == OrderLine(parts, i, customer_id, maps["product_map"])
       IN  /\ insert_rows' = insert_rows \o rows
           /\ i' = i + 1
           /\ pc' = IF rows # <<>> /\ Len(insert_rows') >= batch_size_orders
                    THEN "flush"
                    ELSE Resume(parts, i + 1)
    /\ UNCHANGED << input, run, db, txn, serial, parsed, maps, lineno,
                    processed_lines, customer_id, total_inserted, r, fails,
                    flush, first >>

\* INSERT INTO orderdetail: orderid is not modelled, nothing reads it
InsertedOrders(rows) == txn \o [k \in DOMAIN rows |-> << "orderdetail", rows[k] >>]

\* the rows execute_values has inserted when its page p + 1 raises
PagesBefore(rows) ==
    { SubSeq(rows, 1, p * PageSize) :
        p \in { q \in 0..Len(rows) : q * PageSize < Len(rows) } }

StartFlush(kind) ==
    [kind |-> kind, rows |-> insert_rows, base |-> Len(db["orderdetail"]),
     outcomes |-> <<>>]

\* as BulkOk, without `insert_rows = []`
BulkOkKeep ==
    /\ pc = "flush"
    /\ db' = Committed(InsertedOrders(insert_rows))
    /\ txn' = <<>>
    /\ total_inserted' = total_inserted + Len(insert_rows)
    /\ flush' = StartFlush("bulk_ok")
    /\ pc' = Resume(file[lineno], i)
    /\ UNCHANGED << input, run, serial, parsed, maps, lineno, processed_lines,
                    customer_id, i, insert_rows, r, fails, first >>

\* execute_values(insert_rows); conn.commit(): the batch is stored
BulkOk ==
    /\ pc = "flush"
    /\ db' = Committed(InsertedOrders(insert_rows))
    /\ txn' = <<>>
    /\ total_inserted' = total_inserted + Len(insert_rows)
    /\ insert_rows' = <<>>
    /\ flush' = StartFlush("bulk_ok")
    /\ pc' = Resume(file[lineno], i)
    /\ UNCHANGED << input, run, serial, parsed, maps, lineno, processed_lines,
                    customer_id, i, r, fails, first >>

\* execute_values raises on one of its pages
BulkRaise ==
    /\ pc = "flush"
    /\ fails < MaxFails
    /\ fails' = fails + 1
    /\ \E done \in PagesBefore(insert_rows) : txn' = InsertedOrders(done)
    /\ flush' = StartFlush("bulk_failed")
    /\ pc' = "bulk_except"
    /\ UNCHANGED << input, run, db, serial, parsed, maps, lineno,
                    processed_lines, customer_id, i, insert_rows,
                    total_inserted, r, first >>

\* as BulkRollback, without the rollback
BulkNoRollback ==
    /\ pc = "bulk_except"
    /\ r' = 1
    /\ pc' = "fallback"
    /\ UNCHANGED << input, run, db, txn, serial, parsed, maps, lineno,
                    processed_lines, customer_id, i, insert_rows,
                    total_inserted, fails, flush, first >>

\* except: conn.rollback(), then the per-row loop starts
BulkRollback ==
    /\ pc = "bulk_except"
    /\ txn' = <<>>
    /\ r' = 1
    /\ pc' = "fallback"
    /\ UNCHANGED << input, run, db, serial, parsed, maps, lineno,
                    processed_lines, customer_id, i, insert_rows,
                    total_inserted, fails, flush, first >>

\* pg_cur.execute(INSERT one row); conn.commit()
RowOk ==
    /\ pc = "fallback"
    /\ r <= Len(insert_rows)
    /\ db' = Committed(InsertedOrders(<< insert_rows[r] >>))
    /\ txn' = <<>>
    /\ total_inserted' = total_inserted + 1
    /\ flush' = [flush EXCEPT !.outcomes = Append(@, TRUE)]
    /\ r' = r + 1
    /\ UNCHANGED << input, run, pc, serial, parsed, maps, lineno,
                    processed_lines, customer_id, i, insert_rows, fails,
                    first >>

\* as RowRaise, the skipped row counted as inserted
RowRaiseCounted ==
    /\ pc = "fallback"
    /\ r <= Len(insert_rows)
    /\ fails < MaxFails
    /\ fails' = fails + 1
    /\ txn' = <<>>
    /\ total_inserted' = total_inserted + 1
    /\ flush' = [flush EXCEPT !.outcomes = Append(@, FALSE)]
    /\ r' = r + 1
    /\ UNCHANGED << input, run, pc, db, serial, parsed, maps, lineno,
                    processed_lines, customer_id, i, insert_rows, first >>

\* the single INSERT raises: conn.rollback(), the row is skipped
RowRaise ==
    /\ pc = "fallback"
    /\ r <= Len(insert_rows)
    /\ fails < MaxFails
    /\ fails' = fails + 1
    /\ txn' = <<>>
    /\ flush' = [flush EXCEPT !.outcomes = Append(@, FALSE)]
    /\ r' = r + 1
    /\ UNCHANGED << input, run, pc, db, serial, parsed, maps, lineno,
                    processed_lines, customer_id, i, insert_rows,
                    total_inserted, first >>

\* end of the per-row loop: insert_rows = []
FallbackDone ==
    /\ pc = "fallback"
    /\ r > Len(insert_rows)
    /\ insert_rows' = <<>>
    /\ r' = 0
    /\ pc' = Resume(file[lineno], i)
    /\ UNCHANGED << input, run, db, txn, serial, parsed, maps, lineno,
                    processed_lines, customer_id, i, total_inserted, fails,
                    flush, first >>

\* the generator is exhausted: `if insert_rows:`
EndOfInput ==
    /\ pc = "orders"
    /\ lineno = Len(file)
    /\ pc' = IF insert_rows # <<>> THEN "final" ELSE "close"
    /\ UNCHANGED << input, run, db, txn, serial, parsed, maps, orderloop,
                    fails, first >>

\* final flush: execute_values(insert_rows); conn.commit()
FinalOk ==
    /\ pc = "final"
    /\ db' = Committed(InsertedOrders(insert_rows))
    /\ txn' = <<>>
    /\ total_inserted' = total_inserted + Len(insert_rows)
    /\ flush' = StartFlush("final_ok")
    /\ pc' = "close"
    /\ UNCHANGED << input, run, serial, parsed, maps, lineno, processed_lines,
                    customer_id, i, insert_rows, r, fails, first >>

\* final flush: execute_values raises
FinalRaise ==
    /\ pc = "final"
    /\ fails < MaxFails
    /\ fails' = fails + 1
    /\ \E done \in PagesBefore(insert_rows) : txn' = InsertedOrders(done)
    /\ flush' = StartFlush("final_failed")
    /\ pc' = "final_except"
    /\ UNCHANGED << input, run, db, serial, parsed, maps, lineno,
                    processed_lines, customer_id, i, insert_rows,
                    total_inserted, r, first >>

\* except: conn.rollback(); print(...)
FinalRollback ==
    /\ pc = "final_except"
    /\ txn' = <<>>
    /\ pc' = "close"
    /\ UNCHANGED << input, run, db, serial, parsed, maps, orderloop, fails,
                    flush, first >>

\* pg_cur.close(); cur.close(); conn.close()
Close ==
    /\ pc = "close"
    /\ txn' = <<>>
    /\ pc' = "done"
    /\ UNCHANGED << input, run, db, serial, parsed, maps, orderloop, fails,
                    flush, first >>

\* main is run again on the same file and the same store
RunAgain ==
    /\ pc = "done"
    /\ run < MaxRuns
    /\ run' = run + 1
    /\ first' = IF run = 1
                THEN [first EXCEPT !.pc = pc, !.counts = Counts(db)]
                ELSE first
    /\ pc' = "ddl"
    /\ parsed' = <<>>
    /\ maps' = <<>>
    /\ lineno' = 0
    /\ processed_lines' = 0
    /\ customer_id' = NoId
    /\ i' = 0
    /\ insert_rows' = <<>>
    /\ total_inserted' = 0
    /\ r' = 0
    /\ fails' = 0
    /\ flush' = NoFlush
    /\ UNCHANGED << input, db, txn, serial >>

\* one run of main, with insert failures
Next ==
    \/ CreateTables
    \/ InsertRegions \/ MapRegions
    \/ InsertCountries \/ MapCountries
    \/ InsertCategories \/ MapCategories
    \/ InsertProducts \/ MapProducts
    \/ InsertCustomers \/ MapCustomers
    \/ CommitStage \/ StaticRaises
    \/ NextLine \/ SubRecord
    \/ BulkOk \/ BulkRaise \/ BulkRollback
    \/ RowOk \/ RowRaise \/ FallbackDone
    \/ EndOfInput
    \/ FinalOk \/ FinalRaise \/ FinalRollback
    \/ Close

Spec == Init /\ [][Next]_vars

\* runs of main in succession on one store, without insert failures
NextTwice ==
    \/ CreateTables
    \/ InsertRegions \/ MapRegions
    \/ InsertCountries \/ MapCountries
    \/ InsertCategories \/ MapCategories
    \/ InsertProducts \/ MapProducts
    \/ InsertCustomers \/ MapCustomers
    \/ CommitStage
    \/ NextLine \/ SubRecord
    \/ BulkOk
    \/ EndOfInput
    \/ FinalOk
    \/ Close
    \/ RunAgain

SpecTwice == Init /\ [][NextTwice]_vars

\* the five parsers applied to the file as main applies them: parse_customers
\* gets the names of the countries that parse_countries returned
ParseAll(path) ==
    { [regions |-> rs, country_pairs |-> cp, categories |-> cs,
       products_raw |-> ps, customers_raw |-> cu] :
        rs \in parse_regions(path), cp \in parse_countries(path),
        cs \in parse_productcategories(path), ps \in parse_products(path),
        cu \in parse_customers(path, { x[1] : x \in countries_set(path) }) }

ParseFile ==
    /\ pc = "ddl"
    /\ DOMAIN parsed = {}
    /\ parsed' \in ParseAll(file)
    /\ UNCHANGED << input, run, pc, db, txn, serial, maps, orderloop, fails,
                    first >>

ParseAgain ==
    /\ pc = "ddl"
    /\ DOMAIN parsed # {}
    /\ run < MaxRuns
    /\ run' = run + 1
    /\ first' = IF run = 1 THEN [first EXCEPT !.parsed = parsed] ELSE first
    /\ parsed' \in ParseAll(file)
    /\ UNCHANGED << input, pc, db, txn, serial, maps, orderloop, fails >>

\* the parsers alone, applied to one file again and again
NextParse == ParseFile \/ ParseAgain

SpecParse == Init /\ [][NextParse]_vars

\* ----------------------------------------------------------------- claims
Range(s) == { s[k] : k \in DOMAIN s }

Ids(rows) == { rows[k][1] : k \in DOMAIN rows }

RECURSIVE Sum(_)
Sum(s) == IF s = <<>> THEN 0 ELSE s[1] + Sum(Tail(s))

\* C1: every committed country row references an existing region row, every
\* committed product row an existing productcategory row, every committed
\* customer row an existing country row, and every committed orderdetail row
\* an existing customer row and an existing product row.
C1_ReferentialIntegrity ==
    /\ \A c \in Range(db["country"]) : c[3] \in Ids(db["region"])
    /\ \A p \in Range(db["product"]) : p[4] \in Ids(db["productcategory"])
    /\ \A c \in Range(db["customer"]) : c[6] \in Ids(db["country"])
    /\ \A o \in Range(db["orderdetail"]) :
          o[1] \in Ids(db["customer"]) /\ o[2] \in Ids(db["product"])

\* a run with insert failures has ended with rows in all six tables
C1_Witness ==
    /\ pc = "done"
    /\ fails > 0
    /\ \A t \in Tables : db[t] # <<>>

\* the rows of a buffer whose individual insert succeeded
RECURSIVE Kept(_, _)
Kept(rows, outcomes) ==
    IF outcomes = <<>> THEN <<>>
    ELSE LET n == Len(outcomes)
         IN  Kept(rows, SubSeq(outcomes, 1, n - 1))
               \o (IF outcomes[n] THEN << rows[n] >> ELSE <<>>)

\* C2: when the bulk insert of a full buffer raises, nothing of the buffer is
\* committed and, after the rollback, nothing of it is left in the
\* transaction; the rows are then attempted one by one in buffer order, each
\* exactly once, a failing row not stopping the loop; the rows committed
\* since the flush began are exactly the rows whose own insert succeeded,
\* once each.
C2_RowFallback ==
    flush.kind = "bulk_failed" =>
        /\ pc = "bulk_except" => Len(db["orderdetail"]) = flush.base
        /\ pc # "bulk_except" =>
              /\ txn = <<>>
              /\ db["orderdetail"] =
                    SubSeq(db["orderdetail"], 1, flush.base)
                      \o Kept(flush.rows, flush.outcomes)
              /\ pc = "fallback" =>
                    /\ insert_rows = flush.rows
                    /\ Len(flush.outcomes) = r - 1
              /\ pc # "fallback" => Len(flush.outcomes) = Len(flush.rows)

\* a fallback has ended in which a row failed and a later row was committed
C2_Witness ==
    /\ flush.kind = "bulk_failed"
    /\ pc \notin { "bulk_except", "fallback" }
    /\ \E k, j \in DOMAIN flush.outcomes :
          k < j /\ ~flush.outcomes[k] /\ flush.outcomes[j]

\* C3: when the bulk insert of the final, partial buffer raises, every row of
\* that buffer is retried individually before the run ends.
C3_FinalFallback ==
    (flush.kind = "final_failed" /\ pc = "done") =>
        Len(flush.outcomes) = Len(flush.rows)

\* does the customer of a line resolve, with the mappings of the ended run
Resolves(parts) ==
    /\ Len(parts) >= 6
    /\ parts[1] # <<>>
    /\ ResolveCustomer(parts, maps["cust_map"], maps["country_map"],
                       db["customer"]) # {}

\* the sub-record positions of a line with a non-empty product name
Named(parts) ==
    { p \in DOMAIN parts[6] : parts[6][p] # "" }

\* those of them whose date does not parse or whose product does not resolve
Invalid(parts) ==
    { p \in Named(parts) :
        \/ ParseDate(Field(parts, 11), p) = NoDate
        \/ parts[6][p] \notin DOMAIN maps["product_map"] }

ExpectedOrders ==
    Sum([k \in DOMAIN file |->
           IF Resolves(file[k])
           THEN Cardinality(Named(file[k])) - Cardinality(Invalid(file[k]))
           ELSE 0])

\* C4: a run without insert failures ends with as many orderdetail rows as
\* there are sub-records with a product name on lines whose customer
\* resolves, less those whose date does not parse or whose product does not
\* resolve.
C4_BatchCount ==
    (pc = "done" /\ fails = 0) => Len(db["orderdetail"]) = ExpectedOrders

\* such a run with more rows than one batch, a partial last batch and a
\* dropped sub-record
C4_Witness ==
    /\ pc = "done" /\ fails = 0
    /\ Len(db["orderdetail"]) > batch_size_orders
    /\ Len(db["orderdetail"]) % batch_size_orders # 0
    /\ \E k \in DOMAIN file : Resolves(file[k]) /\ Invalid(file[k]) # {}

\* the dates and quantities the strings of the files stand for
ExpectedDate(str) ==
    CASE str = c_20230101 -> << 2023, 1, 1 >>
      [] str = c_2023_1_5 -> << 2023, 1, 5 >>
      [] str = c_iso_time -> << 2023, 1, 2 >>
      [] OTHER -> NoDate

ExpectedQty(str) ==
    CASE str = c_3 -> 3
      [] str = c_5 -> 5
      [] str = c_1k -> 1000
      [] OTHER -> 0

\* C5: a sub-record position of a line whose customer resolves is appended
\* to the buffer exactly if its product name is non-empty, its date parses
\* and its product name is in the product mapping; the row carries the
\* parsed date and the parsed quantity, 0 when the quantity is missing or
\* unparseable; a position that is not appended leaves the buffer as it is.
C5_SubRecord ==
    [][pc = "sub" =>
         LET parts == file[lineno]
             pname == IF i <= Len(parts[6]) THEN parts[6][i] ELSE ""
             date == IF i <= Len(Field(parts, 11))
                     THEN ExpectedDate(parts[11][i]) ELSE NoDate
             qty == IF i <= Len(Field(parts, 10))
                    THEN ExpectedQty(parts[10][i]) ELSE 0
         IN  IF /\ pname # ""
                /\ date # NoDate
                /\ pname \in DOMAIN maps["product_map"]
             THEN insert_rows' =
                     Append(insert_rows,
                            << customer_id, maps["product_map"][pname], date,
                               qty >>)
             ELSE insert_rows' = insert_rows]_vars

\* the example line alone has been loaded: one order line, Widget, quantity
\* 3, date 2023-01-01
C5_Witness ==
    /\ pc = "done" /\ fails = 0
    /\ file = << LineJane >>
    /\ \E p \in Range(db["product"]) :
          /\ p[2] = "Widget"
          /\ db["orderdetail"] =
                << << db["customer"][1][1], p[1], << 2023, 1, 1 >>, 3 >> >>

StageOrder == << "region", "country", "productcategory", "product", "customer" >>

MapName(stage) ==
    CASE stage = "region" -> "region_map"
      [] stage = "country" -> "country_map"
      [] stage = "productcategory" -> "cat_map"
      [] stage = "product" -> "product_map"
      [] stage = "customer" -> "cust_map"

\* a mapping, once assigned, maps the natural key of every committed row of
\* its table, and each key to the id of a committed row of that key
MapIs(stage) ==
    MapName(stage) \in DOMAIN maps =>
        /\ Pending(txn, stage) = <<>>
        /\ \A row \in Range(db[stage]) :
              KeyOf(stage, row) \in DOMAIN maps[MapName(stage)]
        /\ \A key \in DOMAIN maps[MapName(stage)] :
              \E k \in DOMAIN db[stage] :
                 /\ KeyOf(stage, db[stage][k]) = key
                 /\ db[stage][k][1] = maps[MapName(stage)][key]

\* C6: rows of a table are inserted only after the mapping of the table
\* before it (region, country, productcategory, product, customer) has been
\* built; a mapping is read back only when the transaction that inserted the
\* rows is committed, and it maps all committed rows of its table; order
\* lines are buffered or inserted only after the customer and product
\* mappings have been built.
C6_StageOrder ==
    pc # "ddl" =>
        /\ \A k \in 1..4 :
              Select(StageOrder[k + 1]) # <<>> =>
                 MapName(StageOrder[k]) \in DOMAIN maps
        /\ (Select("orderdetail") # <<>> \/ insert_rows # <<>>) =>
              { MapName(StageOrder[k]) : k \in 1..5 } \subseteq DOMAIN maps
        /\ \A stage \in StaticStages : pc = AfterCommit(stage) => txn = <<>>
        /\ \A stage \in StaticStages : MapIs(stage)

\* the order lines are being streamed with rows in every table
C6_Witness ==
    /\ pc = "sub"
    /\ \A t \in Tables : db[t] # <<>>
    /\ \A k \in 1..5 : MapName(StageOrder[k]) \in DOMAIN maps

\* the natural keys of the valid rows of the file
RegionKeys ==
    { file[k][5] :
        k \in { j \in DOMAIN file : Len(file[j]) > 4 /\ file[j][5] # "" } }

CountryKeys ==
    { file[k][4] :
        k \in { j \in DOMAIN file :
                  Len(file[j]) > 4 /\ file[j][4] # "" /\ file[j][5] # "" } }

CategoryKeys ==
    UNION { Range(file[k][7]) \ { "" } :
              k \in { j \in DOMAIN file : Len(file[j]) > 7 } }

CustomerKeys ==
    { << FirstOf(file[k][1]), LastOf(file[k][1]) >> :
        k \in { j \in DOMAIN file :
                  /\ Len(file[j]) > 4
                  /\ file[j][1] # <<>>
                  /\ file[j][4] \in DOMAIN maps["country_map"] } }

\* the natural keys of the tuples a parser returned
KeysOf(out) == { x[1] : x \in Range(out) }
NamesOf(out) == { << x[1], x[2] >> : x \in Range(out) }

\* C7 as stated: each parser returns as many tuples as there are distinct
\* natural keys in the valid rows.
C7_DistinctKeys ==
    /\ "regions" \in DOMAIN parsed =>
          Len(parsed["regions"]) = Cardinality(RegionKeys)
    /\ "country_pairs" \in DOMAIN parsed =>
          Len(parsed["country_pairs"]) = Cardinality(CountryKeys)
    /\ "categories" \in DOMAIN parsed =>
          Len(parsed["categories"]) = Cardinality(CategoryKeys)
    /\ "products_raw" \in DOMAIN parsed =>
          Len(parsed["products_raw"]) =
             Cardinality(KeysOf(parsed["products_raw"]))
    /\ "customers_raw" \in DOMAIN parsed =>
          Len(parsed["customers_raw"]) = Cardinality(CustomerKeys)

\* C7 as amended: each parser returns pairwise distinct tuples; the natural
\* keys of the regions, countries, categories and customers returned are
\* exactly those of the valid rows, so there are at least as many tuples as
\* natural keys, and exactly as many regions as region names.
C7_DistinctTuples ==
    /\ \A n \in DOMAIN parsed :
          Len(parsed[n]) = Cardinality(Range(parsed[n]))
    /\ "regions" \in DOMAIN parsed =>
          /\ Range(parsed["regions"]) = RegionKeys
          /\ Len(parsed["regions"]) = Cardinality(RegionKeys)
    /\ "country_pairs" \in DOMAIN parsed =>
          KeysOf(parsed["country_pairs"]) = CountryKeys
    /\ "categories" \in DOMAIN parsed =>
          KeysOf(parsed["categories"]) = CategoryKeys
    /\ "customers_raw" \in DOMAIN parsed =>
          NamesOf(parsed["customers_raw"]) = CustomerKeys

\* all five parsers have returned, two countries and two customers sharing
\* their natural key
C7_Witness ==
    /\ "customers_raw" \in DOMAIN parsed
    /\ Len(parsed["country_pairs"]) > Cardinality(CountryKeys)
    /\ Len(parsed["customers_raw"]) > Cardinality(CustomerKeys)

\* C8: applied again to the same file, every parser returns the sequence it
\* returned the first time.
C8_Deterministic ==
    DOMAIN first.parsed # {} => parsed = first.parsed

\* the countries of the file whose region is not in the region table
Orphan(country) ==
    \A k \in DOMAIN file :
        (Len(file[k]) > 4 /\ file[k][4] = country) =>
            file[k][5] \notin { row[2] : row \in Range(db["region"]) }

\* the ids of the country rows of a name, and of their customer rows
CountryIds(country) ==
    { row[1] : row \in { x \in Range(db["country"]) : x[2] = country } }

CustomerIds(country) ==
    { row[1] :
        row \in { x \in Range(db["customer"]) : x[6] \in CountryIds(country) } }

\* C9: a country whose region is not in the region table has no row in the
\* country table, no customer row references it and no orderdetail row
\* references a customer of it.
C9_NoOrphanCountry ==
    \A k \in DOMAIN file :
        (Len(file[k]) > 4 /\ Orphan(file[k][4])) =>
            /\ CountryIds(file[k][4]) = {}
            /\ CustomerIds(file[k][4]) = {}
            /\ \A o \in Range(db["orderdetail"]) :
                  o[1] \notin CustomerIds(file[k][4])

\* a run has ended with countries, customers and order lines in the store,
\* on a file with a line whose country has no region in the region table
C9_Witness ==
    /\ pc = "done"
    /\ db["region"] # <<>> /\ db["customer"] # <<>> /\ db["orderdetail"] # <<>>
    /\ \E k \in DOMAIN file :
          Len(file[k]) > 5 /\ file[k][4] # "" /\ Orphan(file[k][4])

\* C10: a second run of main on the same file, without insert failures,
\* ends with the row counts of the first run in all six tables.
C10_SameCounts ==
    (run >= 2 /\ pc = "done") => Counts(db) = first.counts

\* the second run has ended with rows in all six tables
C10_Witness ==
    /\ run = 2 /\ pc = "done"
    /\ \A t \in Tables : db[t] # <<>>
    /\ Len(db["orderdetail"]) >= 2

\* the (cat, desc) tuples of one line when position i of the category list
\* is paired with position i of the description list of the source line
CategoriesByPosition(parts) ==
    IF Len(parts) > 7
    THEN LET cat_list == Split(parts[7])
             desc_list == SplitOrEmpty(parts[8])
         IN  { << cat_list[n],
                  IF n <= Len(desc_list) THEN desc_list[n] ELSE "" >> :
                 n \in { j \in DOMAIN cat_list : cat_list[j] # "" } }
    ELSE {}

\* the (name, cat, price) tuples of one line when position i of the name
\* list is paired with position i of the category and price lists of the
\* source line
ProductsByPosition(parts) ==
    IF Len(parts) > 8
    THEN LET names == Split(parts[6])
             cats == SplitOrEmpty(parts[7])
             prices == SplitOrEmpty(parts[9])
             cat(n) == IF n <= Len(cats) THEN cats[n] ELSE ""
             price_raw(n) == IF n <= Len(prices) THEN prices[n] ELSE <<>>
         IN  { << names[n], cat(n), ParsePrice(price_raw(n)) >> :
                 n \in { j \in DOMAIN names : names[j] # "" /\ cat(j) # "" } }
    ELSE {}

\* C11: the categories and the products the parsers return are those of the
\* packed lists of each line combined by position in the source line, also
\* when an earlier name of the list is empty.
C11_ByPosition ==
    /\ "categories" \in DOMAIN parsed =>
          Range(parsed["categories"]) =
             UNION { CategoriesByPosition(file[k]) : k \in DOMAIN file }
    /\ "products_raw" \in DOMAIN parsed =>
          Range(parsed["products_raw"]) =
             UNION { ProductsByPosition(file[k]) : k \in DOMAIN file }

\* the positions of main inside the flush of a full buffer
FullFlush == { "flush", "bulk_except", "fallback" }

\* the buffer holds batch_size_orders rows exactly while it is being
\* flushed, and fewer everywhere else
FlushedWhenFull ==
    IF pc \in FullFlush
    THEN Len(insert_rows) = batch_size_orders
    ELSE Len(insert_rows) < batch_size_orders

\* a step leaves the buffer alone, appends one row to it while handling a
\* sub-record, or empties it; the step that ends the flush of a full buffer
\* empties it
BufferStep ==
    /\ \/ insert_rows' = insert_rows
       \/ insert_rows' = <<>>
       \/ /\ pc = "sub"
          /\ Len(insert_rows') = Len(insert_rows) + 1
          /\ SubSeq(insert_rows', 1, Len(insert_rows)) = insert_rows
    /\ (pc \in FullFlush /\ pc' \notin FullFlush) => insert_rows' = <<>>
    /\ pc \in FullFlush \cup { "final", "final_except" } =>
          flush'.rows = insert_rows

\* C12: for every batch size b >= 1 the buffer is flushed as soon as it holds
\* b rows, so it holds fewer than b rows after each sub-record has been
\* handled; the flush of a full buffer, by the bulk insert or by the
\* row-by-row fallback, ends with the buffer empty, and every flush submits
\* the rows appended since, so no row is submitted in two flushes.
C12_FlushWhenFull == []FlushedWhenFull /\ [][BufferStep]_vars

\* a second full buffer is about to be flushed after the first was stored
\* row by row
C12_Witness ==
    /\ pc = "flush"
    /\ flush.kind = "bulk_failed"
    /\ flush.outcomes # <<>>
    /\ Len(flush.outcomes) = Len(flush.rows)
    /\ Len(db["orderdetail"]) > 0

\* C13: during the order-line phase and at the end of the run,
\* total_inserted is the number of committed orderdetail rows, whichever
\* bulk inserts, single-row inserts and final flush have failed.
C13_TotalInserted == total_inserted = Len(db["orderdetail"])

\* a run has ended whose final flush failed after rows had been committed
C13_Witness ==
    /\ pc = "done"
    /\ flush.kind = "final_failed"
    /\ fails >= 2
    /\ total_inserted > 0

\* the customer row of id cid is the customer of the line parts: same first
\* name, last name, address, city and country
OwnCustomer(parts, cid) ==
    /\ Len(parts) >= 6
    /\ parts[1] # <<>>
    /\ \E c \in Range(db["customer"]) :
          /\ c[1] = cid
          /\ c[2] = FirstOf(parts[1]) /\ c[3] = LastOf(parts[1])
          /\ c[4] = parts[2] /\ c[5] = parts[3]
          /\ \E k \in Range(db["country"]) : k[1] = c[6] /\ k[2] = parts[4]

\* C14: every committed orderdetail row is the row of a sub-record of some
\* line of the file with the customer parsed from that line.
C14_OwnCustomer ==
    \A o \in Range(db["orderdetail"]) :
        \E k \in DOMAIN file :
            /\ OwnCustomer(file[k], o[1])
            /\ \E pos \in 1..max_len(file[k]) :
                  OrderLine(file[k], pos, o[1], maps["product_map"]) = << o >>

====
